---- MODULE Spec2Model ----
(***************************************************************************)
(* Touch-driven image viewer on a canvas (src/main.js, src/utils/math.js,  *)
(* src/utils/canvas.js) as a state machine.  Every handler registered in   *)
(* main.js is one action; the helpers of utils/ are operators.             *)
(*                                                                         *)
(* JavaScript numbers are modelled as exact rationals extended with NaN,   *)
(* +Infinity and -Infinity: a number is a record [n, d] with d > 0 and     *)
(* gcd(n, d) = 1 when finite, and d = 0 for the three special values       *)
(* (n = 0: NaN, n = 1: +Infinity, n = -1: -Infinity).  Rounding error of   *)
(* IEEE doubles and the sign of zero are not modelled.                     *)
(***************************************************************************)
EXTENDS Integers, Sequences, FiniteSets, TLC

\* ------------------------------------------------------------------ bounds
\* Number of events (listener runs and form edits) followed from the start.
MaxEvents == 4
\* Largest image / canvas side used when the fit is checked on its own.
MaxDim == 4
\* Where the layout puts the canvas in the viewport (client coordinates).
CanvasLeft == 1
CanvasTop == 2

\* --------------------------------------------------------- number algebra
Abs(i) == IF i < 0 THEN -i ELSE i
Sign(i) == IF i < 0 THEN -1 ELSE IF i > 0 THEN 1 ELSE 0

RECURSIVE Gcd(_, _)
Gcd(a, b) == IF b = 0 THEN a ELSE Gcd(b, a % b)

\* The number n/d in normal form; d = 0 gives NaN or a signed infinity.
Norm(n, d) ==
  IF d = 0 THEN [n |-> Sign(n), d |-> 0]
  ELSE LET g == Gcd(Abs(n), Abs(d))
       IN [n |-> Sign(d) * (n \div g), d |-> Abs(d) \div g]

R(i) == [n |-> i, d |-> 1]
NaN == [n |-> 0, d |-> 0]
Infinity == [n |-> 1, d |-> 0]
IsNaN(a) == a.d = 0 /\ a.n = 0
IsFinite(a) == a.d > 0

Neg(a) == [n |-> -a.n, d |-> a.d]
Add(a, b) ==
  IF a.d = 0 /\ b.d = 0 THEN (IF a = b THEN a ELSE NaN)
  ELSE Norm(a.n * b.d + b.n * a.d, a.d * b.d)
Sub(a, b) == Add(a, Neg(b))
Mul(a, b) == Norm(a.n * b.n, a.d * b.d)
Recip(a) ==
  IF a.d = 0 THEN (IF a.n = 0 THEN NaN ELSE R(0))
  ELSE IF a.n = 0 THEN Infinity
  ELSE Norm(a.d, a.n)
Div(a, b) == Mul(a, Recip(b))

\* Comparisons of JavaScript: every comparison with NaN is false.
Lt(a, b) ==
  /\ ~IsNaN(a)
  /\ ~IsNaN(b)
  /\ IF a.d = 0 /\ b.d = 0 THEN a.n < b.n ELSE a.n * b.d < b.n * a.d
Eq(a, b) == ~IsNaN(a) /\ ~IsNaN(b) /\ a = b
Leq(a, b) == Lt(a, b) \/ Eq(a, b)
Gt(a, b) == Lt(b, a)
Geq(a, b) == Leq(b, a)

\* Math.min, Math.max, Math.round
MathMin(a, b) == IF IsNaN(a) \/ IsNaN(b) THEN NaN ELSE IF Lt(b, a) THEN b ELSE a
MathMax(a, b) == IF IsNaN(a) \/ IsNaN(b) THEN NaN ELSE IF Lt(a, b) THEN b ELSE a
MathRound(a) == IF a.d = 0 THEN a ELSE R((2 * a.n + a.d) \div (2 * a.d))

\* JavaScript truthiness of a number: 0 and NaN are falsy.
Truthy(a) == ~IsNaN(a) /\ a.n # 0

\* Largest r with r * r <= k.
RECURSIVE ISqrtFrom(_, _)
ISqrtFrom(k, r) == IF (r + 1) * (r + 1) > k THEN r ELSE ISqrtFrom(k, r + 1)
\* Square root of a rational whose numerator and denominator are squares.
Sqrt(a) == IF a.d = 0 THEN a ELSE Norm(ISqrtFrom(a.n, 0), ISqrtFrom(a.d, 0))

Pt(x, y) == [x |-> x, y |-> y]
Rect(x, y, w, h) == [x |-> x, y |-> y, width |-> w, height |-> h]

\* ------------------------------------------------------ src/utils/math.js
getDistance(pointA, pointB) ==
  LET dx == Sub(pointA.x, pointB.x)
      dy == Sub(pointA.y, pointB.y)
  IN Sqrt(Add(Mul(dx, dx), Mul(dy, dy)))

\* The area test without the right and bottom edges.
isPointInsideAreaOpenEnded(point, rect) ==
  /\ Geq(point.x, rect.x)
  /\ Geq(point.y, rect.y)

isPointInsideArea(point, rect) ==
  /\ Geq(point.x, rect.x)
  /\ Leq(point.x, Add(rect.x, rect.width))
  /\ Geq(point.y, rect.y)
  /\ Leq(point.y, Add(rect.y, rect.height))

isRectInsideSwapped(rectangleA, rectangleB) ==
  /\ Geq(rectangleB.x, rectangleA.x)
  /\ Leq(Add(rectangleB.x, rectangleB.width), Add(rectangleA.x, rectangleA.width))
  /\ Geq(rectangleB.y, rectangleA.y)
  /\ Leq(Add(rectangleB.y, rectangleB.height), Add(rectangleA.y, rectangleA.height))

\* TRUE iff rectangleA lies completely inside rectangleB.
isRectInside(rectangleA, rectangleB) ==
  LET aLeft == rectangleA.x
      aRight == Add(rectangleA.x, rectangleA.width)
      aTop == rectangleA.y
      aBottom == Add(rectangleA.y, rectangleA.height)
      bLeft == rectangleB.x
      bRight == Add(rectangleB.x, rectangleB.width)
      bTop == rectangleB.y
      bBottom == Add(rectangleB.y, rectangleB.height)
  IN /\ Geq(aLeft, bLeft)
     /\ Leq(aRight, bRight)
     /\ Geq(aTop, bTop)
     /\ Leq(aBottom, bBottom)

\* ---------------------------------------------------- src/utils/canvas.js
DestinationInfo(x, y, w, h) == [desX |-> x, desY |-> y, desW |-> w, desH |-> h]

\* The fit with the image-against-canvas ratio test left out of the cases
\* where image and canvas have the same orientation: always fit by width.
getInitialDestinationInfoAlwaysWidth(image, canvas) ==
  LET imgRatio == Div(image.naturalWidth, image.naturalHeight)
      canvasRatio == Div(canvas.width, canvas.height)
      imgIsLandscape == Geq(imgRatio, R(1))
      canvasIsLandscape == Geq(canvasRatio, R(1))
      fitWidthH == Div(Mul(canvas.width, image.naturalHeight), image.naturalWidth)
      fitHeightW == Mul(image.naturalWidth, Div(canvas.height, image.naturalHeight))
  IN IF imgIsLandscape = canvasIsLandscape \/ imgIsLandscape
     THEN DestinationInfo(R(0), Div(Sub(canvas.height, fitWidthH), R(2)),
                          canvas.width, fitWidthH)
     ELSE DestinationInfo(Div(Neg(Sub(fitHeightW, canvas.width)), R(2)), R(0),
                          fitHeightW, canvas.height)

\* The fit that stretches the image over the whole canvas.
getInitialDestinationInfoStretch(image, canvas) ==
  DestinationInfo(R(0), R(0), canvas.width, canvas.height)

getInitialDestinationInfo(image, canvas) ==
  LET imgRatio == Div(image.naturalWidth, image.naturalHeight)
      canvasRatio == Div(canvas.width, canvas.height)
      imgIsLandscape == Geq(imgRatio, R(1))
      canvasIsLandscape == Geq(canvasRatio, R(1))
  IN IF imgIsLandscape /\ canvasIsLandscape
     THEN IF Gt(imgRatio, canvasRatio)
          THEN LET desW == canvas.width
                   desH == Div(Mul(canvas.width, image.naturalHeight), image.naturalWidth)
                   desY == Div(Sub(canvas.height, desH), R(2))
               IN DestinationInfo(R(0), desY, desW, desH)
          ELSE LET desH == canvas.height
                   desW == Div(Mul(canvas.height, image.naturalWidth), image.naturalHeight)
                   desX == Div(Sub(canvas.width, desW), R(2))
               IN DestinationInfo(desX, R(0), desW, desH)
     ELSE IF ~imgIsLandscape /\ ~canvasIsLandscape
     THEN IF Gt(imgRatio, canvasRatio)
          THEN LET desW == canvas.width
                   desH == Mul(image.naturalHeight, Div(canvas.width, image.naturalWidth))
                   desY == Div(Sub(canvas.height, desH), R(2))
               IN DestinationInfo(R(0), desY, desW, desH)
          ELSE LET desH == canvas.height
                   desW == Mul(image.naturalWidth, Div(canvas.height, image.naturalHeight))
                   desX == Div(Sub(canvas.width, desW), R(2))
               IN DestinationInfo(desX, R(0), desW, desH)
     ELSE IF imgIsLandscape /\ ~canvasIsLandscape
     THEN LET desW == canvas.width
              desH == Mul(image.naturalHeight, Div(canvas.width, image.naturalWidth))
              desY == Div(Neg(Sub(desH, canvas.height)), R(2))
          IN DestinationInfo(R(0), desY, desW, desH)
     ELSE LET desH == canvas.height
              desW == Mul(image.naturalWidth, Div(canvas.height, image.naturalHeight))
              desX == Div(Neg(Sub(desW, canvas.width)), R(2))
          IN DestinationInfo(desX, R(0), desW, desH)

\* ------------------------------------------------------------ src/main.js
MAX_SCALE == R(10)
MIN_SCALE == Norm(1, 2)

Null == <<>>
Some(v) == <<v>>

VARIABLES
  animationID,             \* handle of the frame callback requested last
  isPinching, isPanning,   \* the gesture flags
  startDistance,           \* finger distance at the two-finger touchstart
  scale, baseScale,
  desWidth, desHeight,     \* size of the fitted (unscaled) placement
  pinchMidPoint,           \* Null or Some(point)
  isDebug,
  desPos,                  \* top-left corner the image is drawn at
  startPos,                \* last touch position, canvas coordinates
  diff,                    \* gap between startPos and desPos
  drawInfo,                \* rounded rectangle handed to drawImage
  initialDestinationInfo,
  canvas,                  \* canvas.width, canvas.height
  imgEl,                   \* imgEl.naturalWidth, imgEl.naturalHeight
  pendingSrc,              \* image being fetched after imgEl.src was set
  form,                    \* the numbers in the size form's two fields
  frames,                  \* handles of frame callbacks requested, not yet run
  lastHandle,              \* last handle requestAnimationFrame returned
  thrown,                  \* the last handler ended by an uncaught TypeError
  lastEvent,               \* the last handler that ran and the path it took
  nEvents                  \* number of events so far

gesture == <<isPinching, isPanning, startDistance, baseScale>>
transform == <<scale, desWidth, desHeight, desPos>>
panState == <<startPos, diff>>
surface == <<canvas, imgEl, pendingSrc, form, initialDestinationInfo>>
loop == <<animationID, drawInfo, frames, lastHandle>>
vars == <<gesture, transform, panState, surface, loop, pinchMidPoint, isDebug,
          thrown, lastEvent, nEvents>>

\* ----- the environment: images, form input, touches
Orientations == {"landscape", "portrait"}
\* Natural size of the picture getImageSource names for an orientation.
NaturalSize(orientation) ==
  IF orientation = "landscape"
  THEN [naturalWidth |-> R(4), naturalHeight |-> R(2)]
  ELSE [naturalWidth |-> R(2), naturalHeight |-> R(4)]
NotLoaded == [naturalWidth |-> R(0), naturalHeight |-> R(0)]

\* What Number(formData.get(..)) can give for the two fields.
FormInputs ==
  { [width |-> R(8), height |-> R(4)], [width |-> R(4), height |-> R(8)],
    [width |-> R(0), height |-> NaN] }
\* The values the markup gives the fields, restored by form.reset().
FormDefault == [width |-> R(8), height |-> R(4)]

\* A touch at the point p, given relative to the canvas corner.
TouchAt(p) == [clientX |-> R(CanvasLeft + p[1]), clientY |-> R(CanvasTop + p[2])]
\* Where fingers come down: two points of every canvas used here and one
\* point outside of all of them.
PointA == <<1, 1>>
PointC == <<5, 1>>
OutsidePoint == <<9, 1>>
\* Lists of two touches: both on PointA, one unit apart, four units apart.
TouchPairs ==
  { <<TouchAt(PointA), TouchAt(PointA)>>,
    <<TouchAt(PointA), TouchAt(<<1, 2>>)>>,
    <<TouchAt(PointA), TouchAt(PointC)>> }
\* The touch lists events carry: one touch, two touches, or three (the
\* listeners read the first two only).
TouchLists ==
  { <<TouchAt(p)>> : p \in {PointA, PointC, OutsidePoint} }
    \cup TouchPairs
    \cup { <<TouchAt(PointA), TouchAt(PointC), TouchAt(OutsidePoint)>> }

Event(type, n, branch) == [type |-> type, n |-> n, branch |-> branch]

\* canvas.getBoundingClientRect(): the canvas is laid out unscaled.
getBoundingClientRect(cv) ==
  [x |-> R(CanvasLeft), y |-> R(CanvasTop), left |-> R(CanvasLeft),
   top |-> R(CanvasTop), width |-> cv.width, height |-> cv.height]

\* Assignment to canvas.width / canvas.height (an unsigned long): NaN and the
\* infinities become 0, a fraction is truncated.
ToUnsignedLong(v) == IF v.d = 0 THEN R(0) ELSE R(v.n \div v.d)

ImageRect(pos, w, h, sc) == Rect(pos.x, pos.y, Mul(w, sc), Mul(h, sc))

getSizeFromUserInput(formEle) == [width |-> formEle.width, height |-> formEle.height]

\* The draw rectangle without Math.round.
updateDrawInfoUnrounded(pos, w, h, sc) ==
  [x |-> pos.x, y |-> pos.y, width |-> Mul(w, sc), height |-> Mul(h, sc)]

updateDrawInfo(pos, w, h, sc) ==
  [x |-> MathRound(pos.x), y |-> MathRound(pos.y),
   width |-> MathRound(Mul(w, sc)), height |-> MathRound(Mul(h, sc))]

stopAnimationNoop(pending, id) == pending
\* window.cancelAnimationFrame(id)
stopAnimation(pending, id) == pending \ {id}

\* animate(): redraw from the state (pos, w, h, scale) and request the next frame.
animate(pending, pos, w, h) ==
  /\ drawInfo' = updateDrawInfo(pos, w, h, scale)
  /\ lastHandle' = lastHandle + 1
  /\ animationID' = lastHandle + 1
  /\ frames' = pending \cup {lastHandle + 1}

startAnimation(image, cavasWidth, canvasHeight) ==
  LET pending == stopAnimation(frames, animationID)
      cv == [width |-> ToUnsignedLong(cavasWidth), height |-> ToUnsignedLong(canvasHeight)]
      info == getInitialDestinationInfo(image, cv)
  IN /\ canvas' = cv
     /\ initialDestinationInfo' = info
     /\ desPos' = Pt(info.desX, info.desY)
     /\ desWidth' = info.desW
     /\ desHeight' = info.desH
     /\ animate(pending, Pt(info.desX, info.desY), info.desW, info.desH)

\* One more event is dispatched; its listener runs to completion.
Dispatch ==
  /\ nEvents < MaxEvents
  /\ nEvents' = nEvents + 1

Init ==
  /\ animationID = 0
  /\ isPinching = FALSE
  /\ isPanning = FALSE
  /\ startDistance = R(0)
  /\ scale = R(1)
  /\ baseScale = R(1)
  /\ desWidth = R(0)
  /\ desHeight = R(0)
  /\ pinchMidPoint = Null
  /\ isDebug \in BOOLEAN
  /\ desPos = Pt(R(0), R(0))
  /\ startPos = Pt(R(0), R(0))
  /\ diff = Pt(R(0), R(0))
  /\ drawInfo = [x |-> R(0), y |-> R(0), width |-> R(0), height |-> R(0)]
  /\ initialDestinationInfo = DestinationInfo(R(0), R(0), R(0), R(0))
  /\ canvas = [width |-> FormDefault.width, height |-> FormDefault.height]
  /\ imgEl = NotLoaded
  /\ pendingSrc \in Orientations
  /\ form = FormDefault
  /\ frames = {}
  /\ lastHandle = 0
  /\ thrown = FALSE
  /\ lastEvent = Event("main", 0, "none")
  /\ nEvents = 0

\* The frame callback with handle h runs.
AnimationFrame(h) ==
  /\ Dispatch
  /\ h \in frames
  /\ animate(frames \ {h}, desPos, desWidth, desHeight)
  /\ thrown' = FALSE
  /\ lastEvent' = Event("frame", 0, IF isDebug THEN "debug" ELSE "plain")
  /\ UNCHANGED <<gesture, transform, panState, surface, pinchMidPoint, isDebug>>

\* The user types into the two fields of the size form.
EditForm(input) ==
  /\ Dispatch
  /\ input # form
  /\ form' = input
  /\ thrown' = FALSE
  /\ lastEvent' = Event("edit", 0, "none")
  /\ UNCHANGED <<gesture, transform, panState, loop, pinchMidPoint, isDebug,
                 canvas, imgEl, pendingSrc, initialDestinationInfo>>

\* submit listener of the size form
FormSubmit ==
  LET size == getSizeFromUserInput(form)
  IN /\ Dispatch
     /\ thrown' = FALSE
     /\ IF ~Truthy(size.width) \/ ~Truthy(size.height)
        THEN /\ form' = FormDefault
             /\ lastEvent' = Event("submit", 0, "invalid")
             /\ UNCHANGED <<transform, loop, canvas, initialDestinationInfo>>
        ELSE /\ startAnimation(imgEl, size.width, size.height)
             /\ lastEvent' = Event("submit", 0, "resize")
             /\ UNCHANGED <<form, scale>>
     /\ UNCHANGED <<gesture, panState, imgEl, pendingSrc, pinchMidPoint, isDebug>>

\* change listener of the orientation select
ImgSelectChange(orientation) ==
  /\ Dispatch
  /\ pendingSrc' = orientation
  /\ isPinching' = FALSE
  /\ isPanning' = FALSE
  /\ startDistance' = R(0)
  /\ scale' = R(1)
  /\ baseScale' = R(1)
  /\ thrown' = FALSE
  /\ lastEvent' = Event("imgchange", 0, "none")
  /\ UNCHANGED <<desWidth, desHeight, desPos, panState, loop, pinchMidPoint, isDebug,
                 canvas, imgEl, form, initialDestinationInfo>>

\* change listener of the debug select
DebugModeChange(on) ==
  /\ Dispatch
  /\ on # isDebug
  /\ isDebug' = on
  /\ thrown' = FALSE
  /\ lastEvent' = Event("debugchange", 0, "none")
  /\ UNCHANGED <<gesture, transform, panState, surface, loop, pinchMidPoint>>

\* load listener of the image element
ImgLoad ==
  /\ Dispatch
  /\ pendingSrc \in Orientations
  /\ imgEl' = NaturalSize(pendingSrc)
  /\ pendingSrc' = "none"
  /\ LET size == getSizeFromUserInput(form)
     IN startAnimation(NaturalSize(pendingSrc), size.width, size.height)
  /\ thrown' = FALSE
  /\ lastEvent' = Event("load", 0, "resize")
  /\ UNCHANGED <<gesture, panState, scale, form, pinchMidPoint, isDebug>>

\* Position of a touch relative to the canvas corner.
CanvasPoint(touch, rect) == Pt(Sub(touch.clientX, rect.x), Sub(touch.clientY, rect.y))

\* diff = startPos - desPos
GapVector(anchor, pos) == Pt(Sub(anchor.x, pos.x), Sub(anchor.y, pos.y))

PanOffsetIgnoringGap(anchor, gap) == anchor
\* desPos = startPos - diff
PanOffset(anchor, gap) == Pt(Sub(anchor.x, gap.x), Sub(anchor.y, gap.y))

\* The touchstart listener without "isPanning = false" in its two-touch branch.
TouchStartKeepsPanning(touches) ==
  /\ nEvents < MaxEvents
  /\ nEvents' = nEvents + 1
  /\ thrown' = FALSE
  /\ isPinching' = (Len(touches) = 2 \/ (Len(touches) > 2 /\ isPinching))
  /\ isPanning' = (Len(touches) = 1 \/ isPanning)
  /\ startPos' =
       IF Len(touches) = 1
       THEN Pt(Sub(touches[1].clientX, R(CanvasLeft)), Sub(touches[1].clientY, R(CanvasTop)))
       ELSE startPos
  /\ diff' =
       IF Len(touches) = 1
       THEN Pt(Sub(startPos'.x, desPos.x), Sub(startPos'.y, desPos.y))
       ELSE diff
  /\ startDistance' =
       IF Len(touches) = 2
       THEN getDistance(Pt(touches[1].clientX, touches[1].clientY),
                        Pt(touches[2].clientX, touches[2].clientY))
       ELSE startDistance
  /\ baseScale' = IF Len(touches) = 2 THEN scale ELSE baseScale
  /\ lastEvent' =
       [type |-> "touchstart", n |-> Len(touches),
        branch |-> IF Len(touches) = 1 THEN "pan"
                   ELSE IF Len(touches) = 2 THEN "pinch" ELSE "ignored"]
  /\ UNCHANGED <<scale, desWidth, desHeight, desPos, canvas, imgEl, pendingSrc, form,
                 initialDestinationInfo, animationID, drawInfo, frames, lastHandle,
                 pinchMidPoint, isDebug>>

\* touchstart listener
TouchStart(touches) ==
  /\ Dispatch
  /\ thrown' = FALSE
  /\ IF Len(touches) = 1
     THEN /\ isPanning' = TRUE
          /\ isPinching' = FALSE
          /\ startPos' = CanvasPoint(touches[1], getBoundingClientRect(canvas))
          /\ diff' = GapVector(startPos', desPos)
          /\ lastEvent' = Event("touchstart", Len(touches), "pan")
          /\ UNCHANGED <<startDistance, baseScale>>
     ELSE IF Len(touches) = 2
     THEN /\ isPinching' = TRUE
          /\ isPanning' = FALSE
          /\ startDistance' = getDistance(Pt(touches[1].clientX, touches[1].clientY),
                                          Pt(touches[2].clientX, touches[2].clientY))
          /\ baseScale' = scale
          /\ lastEvent' = Event("touchstart", Len(touches), "pinch")
          /\ UNCHANGED panState
     ELSE /\ lastEvent' = Event("touchstart", Len(touches), "ignored")
          /\ UNCHANGED <<gesture, panState>>
  /\ UNCHANGED <<transform, surface, loop, pinchMidPoint, isDebug>>

ClampScaleNoMin(newScale) == MathMin(MAX_SCALE, newScale)
ClampScaleNoMax(newScale) == MathMax(MIN_SCALE, newScale)
\* Math.max(MIN_SCALE, Math.min(MAX_SCALE, newScale))
ClampScale(newScale) == MathMax(MIN_SCALE, MathMin(MAX_SCALE, newScale))

\* The offset that keeps the point mid of the canvas over the same image point.
Recenter(mid, pos, scaleFactor) ==
  Pt(Sub(mid.x, Mul(Sub(mid.x, pos.x), scaleFactor)),
     Sub(mid.y, Mul(Sub(mid.y, pos.y), scaleFactor)))

\* touchmove listener
TouchMove(touches) ==
  LET canvasDOMRect == getBoundingClientRect(canvas)
      imageRect == ImageRect(desPos, desWidth, desHeight, scale)
      canvasRect == Rect(R(0), R(0), canvasDOMRect.width, canvasDOMRect.height)
      \* the isPanning block
      point == CanvasPoint(touches[1], canvasDOMRect)
      onCanvas == isPointInsideArea(point, canvasRect)
      onImage == isPointInsideArea(point, imageRect)
      panReturns == isPanning /\ (~onCanvas \/ onImage)
      panDrags == isPanning /\ onCanvas /\ onImage
      panResyncs == isPanning /\ onCanvas /\ ~onImage
      posAfterPan ==
        IF panDrags THEN PanOffset(point, diff) ELSE desPos
      diffAfterPan ==
        IF panResyncs THEN GapVector(point, desPos) ELSE diff
      panBranch ==
        IF ~isPanning THEN "none"
        ELSE IF ~onCanvas THEN "pan-outside"
        ELSE IF onImage THEN "pan-drag" ELSE "pan-resync"
      \* the isPinching block
      pinchRuns == isPinching /\ ~panReturns
      pinchThrows == pinchRuns /\ Len(touches) < 2
      pinchReads == pinchRuns /\ Len(touches) >= 2
      currentDistance ==
        getDistance(Pt(touches[1].clientX, touches[1].clientY),
                    Pt(touches[2].clientX, touches[2].clientY))
      mid ==
        Pt(Sub(Div(Add(touches[1].clientX, touches[2].clientX), R(2)), canvasDOMRect.left),
           Sub(Div(Add(touches[1].clientY, touches[2].clientY), R(2)), canvasDOMRect.top))
      pinchRect == ImageRect(posAfterPan, desWidth, desHeight, scale)
      pinchZooms == pinchReads /\ isPointInsideArea(mid, pinchRect)
      prevScale == scale
      pinchScale == Div(currentDistance, startDistance)
      newScale == Mul(baseScale, pinchScale)
      clamped == ClampScale(newScale)
      scaleFactor == Div(clamped, prevScale)
  IN /\ Dispatch
     /\ startPos' = IF isPanning THEN point ELSE startPos
     /\ diff' = diffAfterPan
     /\ pinchMidPoint' = IF pinchReads THEN Some(mid) ELSE pinchMidPoint
     /\ scale' = IF pinchZooms THEN clamped ELSE scale
     /\ desPos' = IF pinchZooms THEN Recenter(mid, posAfterPan, scaleFactor) ELSE posAfterPan
     /\ thrown' = pinchThrows
     /\ lastEvent' =
          Event("touchmove", Len(touches),
                IF pinchThrows THEN "throw"
                ELSE IF pinchZooms THEN "pinch-zoom"
                ELSE IF pinchReads THEN "pinch-miss"
                ELSE panBranch)
     /\ UNCHANGED <<gesture, desWidth, desHeight, surface, loop, isDebug>>

\* The touchend listener without "isPanning = false".
TouchEndKeepsPanning ==
  LET canvasRect == Rect(R(0), R(0), canvas.width, canvas.height)
      imageRect == ImageRect(desPos, desWidth, desHeight, scale)
      info == getInitialDestinationInfo(imgEl, canvas)
  IN /\ Dispatch
     /\ IF ~isRectInside(canvasRect, imageRect)
        THEN /\ initialDestinationInfo' = info
             /\ desPos' = Pt(info.desX, info.desY)
             /\ desWidth' = info.desW
             /\ desHeight' = info.desH
             /\ scale' = R(1)
             /\ baseScale' = R(1)
             /\ lastEvent' = Event("touchend", 0, "snap")
        ELSE /\ lastEvent' = Event("touchend", 0, "keep")
             /\ UNCHANGED <<initialDestinationInfo, transform, baseScale>>
     /\ isPanning' = isPanning
     /\ isPinching' = FALSE
     /\ startDistance' = R(0)
     /\ thrown' = FALSE
     /\ UNCHANGED <<panState, canvas, imgEl, pendingSrc, form, loop, pinchMidPoint, isDebug>>

\* touchend listener
TouchEnd ==
  LET canvasRect == Rect(R(0), R(0), canvas.width, canvas.height)
      imageRect == ImageRect(desPos, desWidth, desHeight, scale)
      info == getInitialDestinationInfo(imgEl, canvas)
  IN /\ Dispatch
     /\ IF ~isRectInside(canvasRect, imageRect)
        THEN /\ initialDestinationInfo' = info
             /\ desPos' = Pt(info.desX, info.desY)
             /\ desWidth' = info.desW
             /\ desHeight' = info.desH
             /\ scale' = R(1)
             /\ baseScale' = R(1)
             /\ lastEvent' = Event("touchend", 0, "snap")
        ELSE /\ lastEvent' = Event("touchend", 0, "keep")
             /\ UNCHANGED <<initialDestinationInfo, transform, baseScale>>
     /\ isPanning' = FALSE
     /\ isPinching' = FALSE
     /\ startDistance' = R(0)
     /\ thrown' = FALSE
     /\ UNCHANGED <<panState, canvas, imgEl, pendingSrc, form, loop, pinchMidPoint, isDebug>>

Next ==
  \/ \E touches \in TouchLists : TouchStart(touches)
  \/ \E touches \in TouchLists : TouchMove(touches)
  \/ TouchEnd
  \/ \E h \in frames : AnimationFrame(h)
  \/ \E input \in FormInputs : EditForm(input)
  \/ FormSubmit
  \/ \E orientation \in Orientations : ImgSelectChange(orientation)
  \/ \E on \in BOOLEAN : DebugModeChange(on)
  \/ ImgLoad

Spec == Init /\ [][Next]_vars

\* ----- the fit on its own: any image on any canvas, sides 1..MaxDim
Sides == { R(i) : i \in 1..MaxDim }

FitInit ==
  /\ animationID = 0
  /\ isPinching = FALSE
  /\ isPanning = FALSE
  /\ startDistance = R(0)
  /\ scale = R(1)
  /\ baseScale = R(1)
  /\ desWidth = R(0)
  /\ desHeight = R(0)
  /\ pinchMidPoint = Null
  /\ isDebug = FALSE
  /\ desPos = Pt(R(0), R(0))
  /\ startPos = Pt(R(0), R(0))
  /\ diff = Pt(R(0), R(0))
  /\ drawInfo = [x |-> R(0), y |-> R(0), width |-> R(0), height |-> R(0)]
  /\ initialDestinationInfo = DestinationInfo(R(0), R(0), R(0), R(0))
  /\ canvas \in [width : Sides, height : Sides]
  /\ imgEl \in [naturalWidth : Sides, naturalHeight : Sides]
  /\ pendingSrc = "none"
  /\ form = FormDefault
  /\ frames = {}
  /\ lastHandle = 0
  /\ thrown = FALSE
  /\ lastEvent = Event("main", 0, "none")
  /\ nEvents = 0

\* initialDestinationInfo = getInitialDestinationInfo(imgEl, canvas)
ComputeFit ==
  /\ lastEvent.type = "main"
  /\ initialDestinationInfo' = getInitialDestinationInfo(imgEl, canvas)
  /\ lastEvent' = Event("fit", 0, "none")
  /\ UNCHANGED <<gesture, transform, panState, canvas, imgEl, pendingSrc, form, loop,
                 pinchMidPoint, isDebug, thrown, nEvents>>

FitSpec == FitInit /\ [][ComputeFit]_vars

\* ------------------------------------------------------------ properties
\* The step is one run of the listener of the given event type.
Handled(type) == nEvents' = nEvents + 1 /\ lastEvent'.type = type

\* Rectangle containment, stated on corner coordinates.
Within(inner, outer) ==
  /\ Leq(outer.x, inner.x)
  /\ Leq(outer.y, inner.y)
  /\ Leq(Add(inner.x, inner.width), Add(outer.x, outer.width))
  /\ Leq(Add(inner.y, inner.height), Add(outer.y, outer.height))
Contains(rect, p) == Within(Rect(p.x, p.y, R(0), R(0)), rect)

SurfaceRect == Rect(R(0), R(0), canvas.width, canvas.height)
DisplayedRect == Rect(desPos.x, desPos.y, Mul(desWidth, scale), Mul(desHeight, scale))
FitResult == getInitialDestinationInfo(imgEl, canvas)

\* The state after the step is the fitted placement for the surface.
SnappedBack ==
  /\ scale' = R(1)
  /\ baseScale' = R(1)
  /\ desPos' = Pt(FitResult.desX, FitResult.desY)
  /\ desWidth' = FitResult.desW
  /\ desHeight' = FitResult.desH
GestureCleared == ~isPanning' /\ ~isPinching' /\ startDistance' = R(0)
PlacementKept == UNCHANGED <<desPos, scale, baseScale, desWidth, desHeight>>

ImageLoaded == Gt(imgEl.naturalWidth, R(0)) /\ Gt(imgEl.naturalHeight, R(0))

\* C1 as stated, for a loaded image: a touch-end snaps back to the fitted placement when the
\* image's displayed rectangle is not fully inside the surface rectangle, and
\* otherwise keeps the placement and only clears the gesture.
C1_SnapBackWhenImageNotInsideSurface ==
  [][(Handled("touchend") /\ ImageLoaded) =>
       /\ GestureCleared
       /\ IF ~Within(DisplayedRect, SurfaceRect) THEN SnappedBack ELSE PlacementKept]_vars

\* C1 amended: a touch-end snaps back to the fitted placement when the surface
\* rectangle is not fully inside the image's displayed rectangle (the image
\* does not cover the surface), and otherwise keeps the placement and only
\* clears the gesture.
C1_SnapBackUnlessImageCoversSurface ==
  [][Handled("touchend") =>
       /\ GestureCleared
       /\ IF ~Within(SurfaceRect, DisplayedRect) THEN SnappedBack ELSE PlacementKept]_vars

\* C1 witness: a touch-end has kept a zoomed-in placement.
C1_Witness ==
  /\ ImageLoaded
  /\ lastEvent.type = "touchend"
  /\ Gt(scale, R(1))
  /\ Within(SurfaceRect, DisplayedRect)
  /\ ~Within(DisplayedRect, SurfaceRect)

\* C2: in every reachable state MIN_SCALE <= scale <= MAX_SCALE.
C2_ScaleAlwaysClamped == Leq(MIN_SCALE, scale) /\ Leq(scale, MAX_SCALE)

\* The midpoint the last pinch move recorded.
MidPointAfter == pinchMidPoint'[1]
PinchMoveOverImage ==
  /\ Handled("touchmove")
  /\ isPinching
  /\ lastEvent'.n >= 2
  /\ pinchMidPoint' # Null
  /\ Contains(DisplayedRect, MidPointAfter)

\* C3: a pinch move whose midpoint is inside the displayed rectangle keeps the
\* image point under the midpoint fixed:
\* (mid - offsetAfter) * scaleBefore = (mid - offsetBefore) * scaleAfter.
C3_PinchKeepsMidpointFixed ==
  [][PinchMoveOverImage =>
       /\ Eq(Mul(Sub(MidPointAfter.x, desPos'.x), scale),
             Mul(Sub(MidPointAfter.x, desPos.x), scale'))
       /\ Eq(Mul(Sub(MidPointAfter.y, desPos'.y), scale),
             Mul(Sub(MidPointAfter.y, desPos.y), scale'))]_vars

\* The anchor point a pan move recorded.
AnchorAfter == startPos'
PanMoveOnSurface ==
  /\ Handled("touchmove")
  /\ isPanning
  /\ Contains(SurfaceRect, AnchorAfter)

\* C4: a pan move with its anchor on the surface but off the image leaves
\* offset and scale alone and sets gap = anchor - offset; with its anchor on
\* the image it sets offset = anchor - gap and leaves the gap alone.
C4_PanContainmentRule ==
  [][PanMoveOnSurface =>
       IF Contains(DisplayedRect, AnchorAfter)
       THEN /\ desPos'.x = Sub(AnchorAfter.x, diff.x)
            /\ desPos'.y = Sub(AnchorAfter.y, diff.y)
            /\ diff' = diff
       ELSE /\ desPos' = desPos
            /\ scale' = scale
            /\ diff'.x = Sub(AnchorAfter.x, desPos.x)
            /\ diff'.y = Sub(AnchorAfter.y, desPos.y)]_vars

\* C4 witness: a pan move off the image has resynchronized a gap that a drag
\* had left different from anchor - offset of the touch-start.
C4_Witness ==
  /\ ImageLoaded
  /\ lastEvent = Event("touchmove", 1, "pan-resync")
  /\ isPanning
  /\ Contains(SurfaceRect, startPos)
  /\ ~Contains(DisplayedRect, startPos)
  /\ diff = GapVector(startPos, desPos)
  /\ desPos # Pt(FitResult.desX, FitResult.desY)

\* C5: panning and pinching are never active together.
C5_GesturesExclusive == ~(isPanning /\ isPinching)

\* C5 witness: a two-finger touch-start has replaced a pan by a pinch.
C5_Witness ==
  /\ lastEvent = Event("touchstart", 2, "pinch")
  /\ isPinching
  /\ diff # Pt(R(0), R(0))

\* C6: at most one frame callback is requested and not yet run, it is the one
\* animationID names, and after a resize it was requested with the draw
\* rectangle taken from the recomputed fit.
C6_OneRedrawTask ==
  /\ Cardinality(frames) <= 1
  /\ frames \subseteq {animationID}
  /\ lastEvent.branch = "resize" =>
       /\ frames = {animationID}
       /\ drawInfo.x = MathRound(FitResult.desX)
       /\ drawInfo.y = MathRound(FitResult.desY)

\* C6 witness: a resize has replaced the frame callback a frame had requested.
C6_Witness ==
  /\ lastEvent = Event("submit", 0, "resize")
  /\ lastHandle >= 3
  /\ frames = {lastHandle}

\* C7: a pinch move with startDistance = 0 leaves scale unchanged and puts
\* neither Infinity nor NaN into scale or offset (stated for a loaded image
\* and a scale and offset that were finite numbers before the move).
C7_DegeneratePinchIsNoOp ==
  [][(/\ Handled("touchmove")
      /\ ImageLoaded
      /\ isPinching
      /\ startDistance = R(0)
      /\ IsFinite(scale) /\ IsFinite(desPos.x) /\ IsFinite(desPos.y)) =>
       /\ scale' = scale
       /\ IsFinite(scale')
       /\ IsFinite(desPos'.x)
       /\ IsFinite(desPos'.y)]_vars

\* C8: a touch-move while pinching that does not carry exactly two touches
\* raises no error and changes nothing (stated for a loaded image).
C8_WrongTouchCountIgnored ==
  [][(Handled("touchmove") /\ ImageLoaded /\ isPinching /\ lastEvent'.n # 2) =>
       /\ ~thrown'
       /\ UNCHANGED <<gesture, transform, panState, pinchMidPoint>>]_vars

\* C9: after a resize the transform is the fitted placement: scale = 1 and
\* offset and base size are the fit for the new surface size (stated for a
\* loaded image and a scale strictly between MIN_SCALE and MAX_SCALE).
C9_ResizeResetsTransform ==
  (lastEvent.branch = "resize" /\ ImageLoaded /\ Lt(MIN_SCALE, scale) /\ Lt(scale, MAX_SCALE)) =>
    /\ scale = R(1)
    /\ desPos = Pt(FitResult.desX, FitResult.desY)
    /\ desWidth = FitResult.desW
    /\ desHeight = FitResult.desH

\* C10: for positive image and canvas sides the fit lies inside the canvas and
\* is centered on the axis it does not fill.
C10_FitInsideCanvas ==
  lastEvent.type = "fit" =>
    LET i == initialDestinationInfo
    IN /\ Geq(i.desX, R(0))
       /\ Geq(i.desY, R(0))
       /\ Leq(Add(i.desX, i.desW), canvas.width)
       /\ Leq(Add(i.desY, i.desH), canvas.height)
       /\ \/ /\ i.desW = canvas.width
             /\ i.desX = R(0)
             /\ Add(Mul(R(2), i.desY), i.desH) = canvas.height
          \/ /\ i.desH = canvas.height
             /\ i.desY = R(0)
             /\ Add(Mul(R(2), i.desX), i.desW) = canvas.width

\* C10 witness: a landscape image fitted on a portrait canvas, centered with
\* room above and below.
C10_Witness ==
  /\ lastEvent.type = "fit"
  /\ Gt(imgEl.naturalWidth, imgEl.naturalHeight)
  /\ Lt(canvas.width, canvas.height)
  /\ Gt(initialDestinationInfo.desY, R(0))

\* C11: for positive image and canvas sides the fit keeps the image's aspect
\* ratio (width * ih = height * iw) and fills at least one axis of the canvas.
C11_FitKeepsAspectRatio ==
  lastEvent.type = "fit" =>
    LET i == initialDestinationInfo
    IN /\ Eq(Mul(i.desW, imgEl.naturalHeight), Mul(i.desH, imgEl.naturalWidth))
       /\ Eq(i.desW, canvas.width) \/ Eq(i.desH, canvas.height)

\* C11 witness: an image less wide than the canvas it shares the orientation
\* with is fitted by height, narrower than the canvas.
C11_Witness ==
  /\ lastEvent.type = "fit"
  /\ imgEl = [naturalWidth |-> R(3), naturalHeight |-> R(2)]
  /\ canvas = [width |-> R(4), height |-> R(2)]
  /\ initialDestinationInfo = DestinationInfo(Norm(1, 2), R(0), R(3), R(2))

\* The finger distance and the midpoint (canvas coordinates) of a touch list.
FingerDistance(touches) ==
  getDistance(Pt(touches[1].clientX, touches[1].clientY),
              Pt(touches[2].clientX, touches[2].clientY))
FingerMidPoint(touches) ==
  Pt(Sub(Div(Add(touches[1].clientX, touches[2].clientX), R(2)), R(CanvasLeft)),
     Sub(Div(Add(touches[1].clientY, touches[2].clientY), R(2)), R(CanvasTop)))
\* A touch-move of a pinch with its midpoint on the image and startDistance > 0.
AcceptedPinchMove(touches) ==
  /\ isPinching
  /\ Len(touches) >= 2
  /\ Gt(startDistance, R(0))
  /\ Contains(DisplayedRect, FingerMidPoint(touches))
  /\ Handled("touchmove")
  /\ TouchMove(touches)

\* C12: an accepted pinch move sets scale to
\* clamp(baseScale * currentDistance / startDistance, MIN_SCALE, MAX_SCALE), and
\* baseScale and startDistance stay what the two-finger touch-start recorded
\* for as long as the pinch lasts.
C12_PinchScaleFromGestureStart ==
  [][/\ \A touches \in TouchLists :
          AcceptedPinchMove(touches) =>
            scale' = MathMax(MIN_SCALE,
                       MathMin(MAX_SCALE,
                         Div(Mul(baseScale, FingerDistance(touches)), startDistance)))
     /\ (isPinching /\ isPinching' /\ ~Handled("touchstart")) =>
          UNCHANGED <<baseScale, startDistance>>
     /\ (Handled("touchstart") /\ lastEvent'.n = 2) =>
          isPinching' /\ baseScale' = scale]_vars

\* C12 witness: fingers one unit apart at the start and four apart at the
\* move have brought scale from 1 to 4.
C12_Witness ==
  /\ ImageLoaded
  /\ lastEvent = Event("touchmove", 2, "pinch-zoom")
  /\ isPinching
  /\ startDistance = R(1)
  /\ baseScale = R(1)
  /\ scale = R(4)

\* The first touch of a touch list in canvas coordinates.
FirstTouchPoint(touches) ==
  Pt(Sub(touches[1].clientX, R(CanvasLeft)), Sub(touches[1].clientY, R(CanvasTop)))
\* A touch-move of a pan whose touch is outside the surface rectangle.
PanMoveOutsideSurface(touches) ==
  /\ isPanning
  /\ ~Contains(SurfaceRect, FirstTouchPoint(touches))
  /\ Handled("touchmove")
  /\ TouchMove(touches)
\* Everything the listeners keep but the anchor point.
allButAnchor == <<gesture, transform, diff, surface, loop, pinchMidPoint, isDebug>>

\* C13 as stated, for a loaded image: a pan move whose anchor point falls
\* outside the surface changes no state at all, the anchor point included.
C13_PanMoveOutsideChangesNothing ==
  [][\A touches \in TouchLists :
       (PanMoveOutsideSurface(touches) /\ ImageLoaded) =>
         UNCHANGED <<allButAnchor, startPos>>]_vars

\* C13 amended: a pan move whose anchor point falls outside the surface
\* leaves offset, scale, gap, gesture and all other state alone, except that
\* the anchor point becomes the touch position.
C13_PanMoveOutsideKeepsAllButAnchor ==
  [][\A touches \in TouchLists :
       PanMoveOutsideSurface(touches) =>
         /\ UNCHANGED allButAnchor
         /\ startPos' = FirstTouchPoint(touches)
         /\ ~thrown']_vars

\* C13 witness: a pan move outside the surface has moved the anchor point
\* away from the gap it was recorded with.
C13_Witness ==
  /\ ImageLoaded
  /\ lastEvent = Event("touchmove", 1, "pan-outside")
  /\ isPanning
  /\ startPos = Pt(R(OutsidePoint[1]), R(OutsidePoint[2]))
  /\ ~Contains(SurfaceRect, startPos)
  /\ diff # GapVector(startPos, desPos)

\* C14: a touch-start with one touch makes the gesture a pan with
\* anchor = touch position on the surface and gap = anchor - offset; with two
\* touches it makes the gesture a pinch with startDistance = finger distance
\* and baseScale = scale; with three or more touches it changes nothing.
C14_TouchStartTransitions ==
  [][\A touches \in TouchLists :
       (Handled("touchstart") /\ TouchStart(touches)) =>
         IF Len(touches) = 1
         THEN /\ isPanning' /\ ~isPinching'
              /\ startPos' = FirstTouchPoint(touches)
              /\ diff'.x = Sub(startPos'.x, desPos.x)
              /\ diff'.y = Sub(startPos'.y, desPos.y)
         ELSE IF Len(touches) = 2
         THEN /\ isPinching' /\ ~isPanning'
              /\ startDistance' = FingerDistance(touches)
              /\ baseScale' = scale
         ELSE UNCHANGED <<allButAnchor, startPos>>]_vars

\* C14 witness: a one-finger touch-start has replaced a pinch that had zoomed
\* the image by a pan.
C14_Witness ==
  /\ ImageLoaded
  /\ lastEvent = Event("touchstart", 1, "pan")
  /\ isPanning /\ ~isPinching
  /\ scale = R(4)
  /\ Gt(startDistance, R(0))
  /\ diff = GapVector(startPos, desPos)

\* C15: in every reachable state where no pinch is active the pinch midpoint
\* is null (stated for a loaded image).
C15_MidPointNullUnlessPinching ==
  (ImageLoaded /\ ~isPinching) => pinchMidPoint = Null

\* The size form holds a width or a height that is zero or not a number.
InvalidSize == ~Truthy(form.width) \/ ~Truthy(form.height)

\* C16: a resize request with an invalid size, from the form's submit or from
\* the image's load listener, leaves the surface size, the transform and the
\* requested frame callback unchanged (stated for an image already loaded on
\* a surface of positive size).
C16_InvalidSizeIsNoOp ==
  [][(/\ Handled("submit") \/ Handled("load")
      /\ InvalidSize
      /\ ImageLoaded
      /\ Truthy(canvas.width) /\ Truthy(canvas.height)) =>
       UNCHANGED <<canvas, desPos, scale, desWidth, desHeight, animationID, frames>>]_vars

\* C17: a frame callback, in debug mode or not, leaves offset, scale,
\* baseScale, base size, gesture, anchor, gap, startDistance and the pinch
\* midpoint unchanged and sets the draw rectangle to
\* (round(offset.x), round(offset.y), round(baseWidth * scale),
\* round(baseHeight * scale)); no touch listener writes the draw rectangle.
C17_RendererReadOnly ==
  [][/\ Handled("frame") =>
          /\ UNCHANGED <<gesture, transform, panState, pinchMidPoint>>
          /\ drawInfo'.x = MathRound(desPos.x)
          /\ drawInfo'.y = MathRound(desPos.y)
          /\ drawInfo'.width = MathRound(Mul(desWidth, scale))
          /\ drawInfo'.height = MathRound(Mul(desHeight, scale))
     /\ (Handled("touchstart") \/ Handled("touchmove") \/ Handled("touchend")) =>
          UNCHANGED drawInfo]_vars

\* C17 witness: a frame has drawn, at the rounded corner (1, 1), an image a
\* pinch had put at the corner (1/2, 3/4).
C17_Witness ==
  /\ ImageLoaded
  /\ lastEvent.type = "frame"
  /\ desPos = Pt(Norm(1, 2), Norm(3, 4))
  /\ scale = MIN_SCALE
  /\ drawInfo.x = R(1)
  /\ drawInfo.y = R(1)

\* The state is the fitted placement for the current surface size.
FittedPlacement ==
  /\ scale = R(1)
  /\ baseScale = R(1)
  /\ desPos = Pt(FitResult.desX, FitResult.desY)
  /\ desWidth = FitResult.desW
  /\ desHeight = FitResult.desH

\* C18: immediately after every touch-end either the surface rectangle is
\* fully inside the image's displayed rectangle or the state is the fitted
\* placement.
C18_AfterTouchEndCoversOrFitted ==
  lastEvent.type = "touchend" => (Within(SurfaceRect, DisplayedRect) \/ FittedPlacement)

\* C18 witness: a touch-end has put an image back to the fitted placement
\* after a drag from (1, 1) to (5, 1).
C18_Witness ==
  /\ ImageLoaded
  /\ lastEvent = Event("touchend", 0, "snap")
  /\ FittedPlacement
  /\ startPos = Pt(R(PointC[1]), R(PointC[2]))
  /\ diff = Pt(R(PointA[1]), R(PointA[2]))
  /\ diff # GapVector(startPos, desPos)

\* The anchor point the gap stands for: the point with gap = anchor - offset.
ImpliedAnchor == Pt(Add(desPos.x, diff.x), Add(desPos.y, diff.y))
\* A one-finger touch-start, or a pan move with its touch inside the surface.
AnchoringTouch(touches) ==
  \/ Len(touches) = 1 /\ Handled("touchstart") /\ TouchStart(touches)
  \/ /\ isPanning
     /\ Contains(SurfaceRect, FirstTouchPoint(touches))
     /\ Handled("touchmove")
     /\ TouchMove(touches)

\* C19: while a pan lasts, gap = A - offset, A being the anchor point of the
\* most recent touch-start or pan move inside the surface: such an event makes
\* offset + gap its own touch position, and every other step that leaves the
\* pan active, resizes and image loads included, keeps offset + gap (stated
\* for an image already loaded).
C19_GapTracksAnchorWhilePanning ==
  [][ImageLoaded =>
       /\ \A touches \in TouchLists :
            AnchoringTouch(touches) => ImpliedAnchor' = FirstTouchPoint(touches)
       /\ (isPanning /\ isPanning' /\ ~\E touches \in TouchLists : AnchoringTouch(touches)) =>
            ImpliedAnchor' = ImpliedAnchor]_vars

\* No gesture is active.
GestureNone == ~isPanning /\ ~isPinching

\* C20: a touch-end always leaves no gesture active; from then on, until the
\* next touch-start, no gesture becomes active and every touch-move, whatever
\* the number of touches it carries, leaves offset, scale and gap unchanged.
C20_TouchEndReturnsToNone ==
  [][/\ Handled("touchend") => GestureNone'
     /\ (GestureNone /\ ~Handled("touchstart")) => GestureNone'
     /\ (GestureNone /\ Handled("touchmove")) =>
          /\ UNCHANGED <<desPos, scale, diff>>
          /\ ~thrown']_vars

\* C20 witness: a one-finger touch-move that came after a pinch was over has
\* started no pan.
C20_Witness ==
  /\ lastEvent = Event("touchmove", 1, "none")
  /\ GestureNone
  /\ pinchMidPoint # Null
  /\ startDistance = R(0)
  /\ startPos = Pt(R(0), R(0))

====
